---- MODULE Spec2Model ----
(***************************************************************************)
(* A model of the table reconstruction pipeline of                         *)
(* extract-rice-data-pipeline:                                             *)
(*   stitch_tables          (OCR_table_extractor.py)                       *)
(*   split_mixed_tables     (TableSplitter.py)                             *)
(*   is_strictly_rice_table (RiceFilter.py)                                *)
(*                                                                         *)
(* A DataFrame is a record [ncols, columns, rows]: columns is the sequence *)
(* of its column labels, ncols their number, rows a sequence of rows, each *)
(* a sequence of ncols cells; a cell is its text, a missing cell "nan" (as *)
(* astype(str) gives it).  Frames built from lists of lists or read with   *)
(* header=None have the labels 0..ncols-1; a fragment of process_pdf keeps *)
(* the labels dropna(how='all', axis=1) left it.  pd.concat aligns the     *)
(* frames on their labels.                                                 *)
(* A fragment dict {'page', 'df'} is a record [page, df]; Python's list of *)
(* dict references is modelled as a heap (table_list) and indices into it. *)
(***************************************************************************)
EXTENDS Integers, Sequences, FiniteSets, TLC

VARIABLES
    table_list,     \* stitch_tables: the dict objects of the argument list (a heap)
    table_list0,    \* the argument as it was when stitch_tables was called
    current_entry,  \* stitch_tables: reference (index into table_list), 0 = unset
    pos,            \* stitch_tables: index of the next entry of table_list[1:]
    stitched,       \* stitch_tables: list of references
    group,          \* for each consumed fragment, the chain (opener index) it joined
    dropped,        \* for each consumed fragment, whether its first row was dropped
    sdf,            \* split_mixed_tables: the argument df
    commodity_indices, \* split_mixed_tables: 0-based indices of the anchor rows
    table_starts,   \* split_mixed_tables: the resolved start of every anchor
    split_tables,   \* split_mixed_tables: the sub-tables cut so far
    spans,          \* for each sub-table, the <<current_start, current_end>> it was cut at
    rdf,            \* is_strictly_rice_table: the argument df
    row_i,          \* is_strictly_rice_table: the index i of the row loop
    inspected,      \* the rows whose text held "commodity" when the loop read them
    verdict,        \* is_strictly_rice_table: the value returned ("none" before)
    reason,         \* the return statement that produced the verdict
    current_merged, \* inline stitching loop: the dict current_merged names
    piece_i,        \* inline stitching loop: the index i of the loop over pieces
    final_tables,   \* inline stitching loop: the frames appended so far
    igroup,         \* for each fragment the inline loop consumed, the chain it joined
    ipc,            \* position in the inline stitching loop
    round,          \* 1 in the first call of stitch_tables, 2 in the call on the pieces
    first_stitch,   \* the rows of the table the first call returned
    script,         \* batch loop: the script whose loop over documents runs
    docs,           \* batch loop: for each document, the step that raises ("none" if none)
    doc_i,          \* batch loop: index of the document being processed
    step_i,         \* batch loop: index of the step the document is at
    outcomes,       \* batch loop: for each document left behind, how it ended
    pc              \* position in the function being run

stitchVars == <<table_list, table_list0, current_entry, pos, stitched, group, dropped>>
splitVars == <<sdf, commodity_indices, table_starts, split_tables, spans>>
riceVars == <<rdf, row_i, inspected, verdict, reason>>
inlineVars == <<current_merged, piece_i, final_tables, igroup, ipc>>
restitchVars == <<round, first_stitch>>
batchVars == <<script, docs, doc_i, step_i, outcomes>>
vars == <<stitchVars, splitVars, riceVars, inlineVars, restitchVars, batchVars, pc>>

(***************************************************************************)
(* Bounds of the model and input alphabets                                 *)
(***************************************************************************)
MaxFrags == 3
MaxPage == 3
MaxRows == 2

Widths == {0, 2, 3}
HeaderWidths == {2, 3}
PageSteps == {1, 2}

HeaderCell(c) == <<"Country", "Commodity", "Year">>[c]
DataCell(c) == <<"Brazil", "Rice", "2023">>[c]

\* a first row: its first k cells are header cells, the others data cells
FirstRow(w, k) == [c \in 1..w |-> IF c <= k THEN HeaderCell(c) ELSE DataCell(c)]
\* the j-th following row of a fragment: numeric cells, different in every row
BodyRow(w, j) == [c \in 1..w |-> <<"10", "20", "30", "40">>[j]]

\* the labels of a frame built without column names: RangeIndex(w)
RangeLabels(w) == [c \in 1..w |-> c - 1]

Frame(w, k, n) ==
    [ncols |-> w, columns |-> RangeLabels(w),
     rows |-> <<FirstRow(w, k)>> \o [j \in 1..n |-> BodyRow(w, j)]]
EmptyFrame(w) == [ncols |-> w, columns |-> RangeLabels(w), rows |-> <<>>]

\* Family 1: any pages in document order, any widths, frames empty or full
ShapeFrames == {EmptyFrame(w) : w \in Widths} \cup {Frame(w, w, MaxRows - 1) : w \in Widths}
ShapeEntries == [page : 1..MaxPage, df : ShapeFrames]
InDocumentOrder(t) == \A i \in 1..(Len(t) - 1) : t[i].page <= t[i + 1].page

\* Family 2: fragments of one width with rows, pages consecutive or with a gap,
\* first rows that agree with a header row in 0, w \div 2 or w cells
HeaderFrames(w) == {Frame(w, k, n) : k \in {0, w \div 2, w}, n \in 0..(MaxRows - 1)}
\* page numbers from 1, the i-th fragment steps[i] pages after the one before it
PagesOf(steps) == [i \in 1..Len(steps) |-> i + Cardinality({j \in 2..i : steps[j] = 2})]
HeaderList(st, fr) == [i \in 1..Len(st) |-> [page |-> PagesOf(st)[i], df |-> fr[i]]]

\* Family 3: fragments on consecutive pages whose labels are what
\* dropna(how='all', axis=1) leaves of the labels 0, 1, 2: two of them when one
\* column was empty, all three when none was
DroppedLabels == {<<0, 1>>, <<0, 2>>, <<1, 2>>}
Relabel(df, cols) == [df EXCEPT !.columns = cols]
LabelFrames ==
    {Relabel(Frame(2, k, MaxRows - 1), cols) : k \in {0, 2}, cols \in DroppedLabels}
      \cup {Frame(3, 3, MaxRows - 1)}

SplitIdle ==
    /\ sdf = EmptyFrame(0) /\ commodity_indices = <<>> /\ table_starts = <<>>
    /\ split_tables = <<>> /\ spans = <<>>

RiceIdle ==
    /\ rdf = EmptyFrame(0) /\ row_i = 0 /\ inspected = <<>>
    /\ verdict = "none" /\ reason = "none"

NoEntry == [page |-> 0, df |-> EmptyFrame(0)]

InlineIdle ==
    /\ current_merged = NoEntry /\ piece_i = 1 /\ final_tables = <<>>
    /\ igroup = <<>> /\ ipc = "idle"

RestitchIdle == round = 1 /\ first_stitch = <<>>

BatchIdle ==
    /\ script = "none" /\ docs = <<>> /\ doc_i = 0 /\ step_i = 0 /\ outcomes = <<>>

\* the variables of the components added to the three functions: all at rest
OthersIdle == InlineIdle /\ RestitchIdle /\ BatchIdle

(***************************************************************************)
(* stitch_tables                                                           *)
(***************************************************************************)
\* a variant that accepts any later page
is_consecutive_any_later(current, next) == next.page > current.page

is_consecutive(current, next) == next.page = current.page + 1

is_same_width(curr_df, next_df) == curr_df.ncols = next_df.ncols

\* df.iloc[0] raises IndexError on a frame without rows
iloc0_raises(df) == Len(df.rows) = 0

\* df.iloc[0].astype(str).values.tolist(): cells are text already
row_0(df) == df.rows[1]

match_count(row_0_new, row_0_old) ==
    Cardinality({i \in 1..Len(row_0_new) : row_0_new[i] = row_0_old[i]})

\* a variant whose threshold is "at least half"
is_repeated_header_at_least_half(row_0_new, row_0_old) ==
    2 * match_count(row_0_new, row_0_old) >= Len(row_0_new)

is_repeated_header(row_0_new, row_0_old) ==
    2 * match_count(row_0_new, row_0_old) > Len(row_0_new)

\* next_df.iloc[1:]
iloc_from_1(df) == [ncols |-> df.ncols, columns |-> df.columns, rows |-> Tail(df.rows)]

\* the columns of pd.concat: the labels of the first frame, then the labels only
\* the second frame has, in its order
union_columns(curr_df, next_df) ==
    curr_df.columns
      \o SelectSeq(next_df.columns,
                   LAMBDA l : \A j \in 1..Len(curr_df.columns) : curr_df.columns[j] # l)

\* the rows of df laid out under columns cols: a cell goes under its own label, a
\* column df does not have holds NaN
reindex_rows(df, cols) ==
    [r \in 1..Len(df.rows) |->
       [c \in 1..Len(cols) |->
          IF \E j \in 1..Len(df.columns) : df.columns[j] = cols[c]
            THEN df.rows[r][CHOOSE j \in 1..Len(df.columns) : df.columns[j] = cols[c]]
            ELSE "nan"]]

\* pd.concat([curr_df, next_df], ignore_index=True)
concat(curr_df, next_df) ==
    LET cols == union_columns(curr_df, next_df)
    IN [ncols |-> Len(cols), columns |-> cols,
        rows |-> reindex_rows(curr_df, cols) \o reindex_rows(next_df, cols)]

Mergeable(current, next) ==
    is_consecutive(current, next) /\ is_same_width(current.df, next.df)

StitchEnter ==
    /\ UNCHANGED <<splitVars, riceVars, inlineVars, restitchVars, batchVars>>
    /\ pc = "call"
    /\ IF Len(table_list) = 0
         THEN /\ pc' = "returned"
              /\ UNCHANGED current_entry
         ELSE /\ pc' = "loop"
              /\ current_entry' = 1
    /\ UNCHANGED <<table_list, table_list0, pos, stitched, group, dropped>>

StitchMerge ==
    /\ UNCHANGED <<splitVars, riceVars, inlineVars, restitchVars, batchVars>>
    /\ pc = "loop"
    /\ pos <= Len(table_list)
    /\ LET cur == table_list[current_entry]
           next == table_list[pos]
       IN /\ Mergeable(cur, next)
          /\ ~iloc0_raises(next.df)
          /\ ~iloc0_raises(cur.df)
          /\ LET drop == is_repeated_header(row_0(next.df), row_0(cur.df))
                 next_df == IF drop THEN iloc_from_1(next.df) ELSE next.df
                 merged_df == concat(cur.df, next_df)
             IN /\ table_list' = [table_list EXCEPT
                                    ![current_entry] = [page |-> next.page, df |-> merged_df]]
                /\ dropped' = Append(dropped, drop)
    /\ group' = Append(group, current_entry)
    /\ pos' = pos + 1
    /\ UNCHANGED <<table_list0, current_entry, stitched, pc>>

StitchRaise ==
    /\ UNCHANGED <<splitVars, riceVars, inlineVars, restitchVars, batchVars>>
    /\ pc = "loop"
    /\ pos <= Len(table_list)
    /\ LET cur == table_list[current_entry]
           next == table_list[pos]
       IN /\ Mergeable(cur, next)
          /\ iloc0_raises(next.df) \/ iloc0_raises(cur.df)
    /\ pc' = "raised"
    /\ UNCHANGED <<table_list, table_list0, current_entry, pos, stitched, group, dropped>>

StitchSeal ==
    /\ UNCHANGED <<splitVars, riceVars, inlineVars, restitchVars, batchVars>>
    /\ pc = "loop"
    /\ pos <= Len(table_list)
    /\ ~Mergeable(table_list[current_entry], table_list[pos])
    /\ stitched' = Append(stitched, current_entry)
    /\ current_entry' = pos
    /\ group' = Append(group, pos)
    /\ dropped' = Append(dropped, FALSE)
    /\ pos' = pos + 1
    /\ UNCHANGED <<table_list, table_list0, pc>>

StitchReturn ==
    /\ UNCHANGED <<splitVars, riceVars, inlineVars, restitchVars, batchVars>>
    /\ pc = "loop"
    /\ pos > Len(table_list)
    /\ stitched' = Append(stitched, current_entry)
    /\ pc' = "returned"
    /\ UNCHANGED <<table_list, table_list0, current_entry, pos, group, dropped>>

StitchIdle ==
    /\ table_list = <<>> /\ table_list0 = <<>> /\ current_entry = 0 /\ pos = 2
    /\ stitched = <<>> /\ group = <<>> /\ dropped = <<>>

\* stitch_tables is called on table_list
StitchCalled ==
    /\ table_list0 = table_list
    /\ current_entry = 0
    /\ pos = 2
    /\ stitched = <<>>
    /\ group = IF Len(table_list) = 0 THEN <<>> ELSE <<1>>
    /\ dropped = IF Len(table_list) = 0 THEN <<>> ELSE <<FALSE>>
    /\ pc = "call"

\* the fragment lists of the three families
StitchInput ==
    \/ \E n \in 0..MaxFrags : \E t \in [1..n -> ShapeEntries] :
          InDocumentOrder(t) /\ table_list = t
    \/ \E n \in 1..MaxFrags, w \in HeaderWidths :
          \E st \in [1..n -> PageSteps], fr \in [1..n -> HeaderFrames(w)] :
             table_list = HeaderList(st, fr)
    \/ \E n \in 1..MaxFrags : \E fr \in [1..n -> LabelFrames] :
          table_list = HeaderList([i \in 1..n |-> 1], fr)

InitStitch ==
    /\ StitchInput
    /\ StitchCalled
    /\ SplitIdle
    /\ RiceIdle
    /\ OthersIdle

NextStitch ==
    \/ StitchEnter
    \/ StitchMerge
    \/ StitchRaise
    \/ StitchSeal
    \/ StitchReturn

SpecStitch == InitStitch /\ [][NextStitch]_vars

\* the list stitch_tables returns, each reference replaced by the dict it names
Returned == [i \in 1..Len(stitched) |-> table_list[stitched[i]]]

(***************************************************************************)
(* Properties of stitch_tables                                             *)
(***************************************************************************)
RECURSIVE Flatten(_)
Flatten(ss) == IF Len(ss) = 0 THEN <<>> ELSE Head(ss) \o Flatten(Tail(ss))

Consumed == Len(group)
FragRows(k) == table_list0[k].df.rows
KeptRows(k) == IF dropped[k] THEN Tail(FragRows(k)) ELSE FragRows(k)
\* the rows fragments a..b contribute, in input order
KeptRange(a, b) == Flatten([i \in 1..(b - a + 1) |-> KeptRows(a + i - 1)])
LastOf(g) == CHOOSE k \in 1..Consumed : group[k] = g /\ \A j \in 1..Consumed : group[j] = g => j <= k
ColumnsOf(k) == table_list0[k].df.columns
LabelsOf(k) == {ColumnsOf(k)[j] : j \in 1..Len(ColumnsOf(k))}
\* the column count of the chain that holds the fragments g..k: one column for
\* every label one of them has
ChainWidth(g, k) == Cardinality(UNION {LabelsOf(i) : i \in g..k})
\* its columns in order: every label where it first occurs
RECURSIVE ChainColumns(_, _)
ChainColumns(g, k) ==
    IF k <= g THEN ColumnsOf(g)
    ELSE LET before == ChainColumns(g, k - 1)
         IN before \o SelectSeq(ColumnsOf(k),
                                LAMBDA l : \A j \in 1..Len(before) : before[j] # l)
\* a row of fragment k as it lies under the columns cols
Laid(k, row, cols) ==
    [c \in 1..Len(cols) |->
       IF cols[c] \in LabelsOf(k)
         THEN row[CHOOSE j \in 1..Len(ColumnsOf(k)) : ColumnsOf(k)[j] = cols[c]]
         ELSE "nan"]
LaidRows(k, rows, cols) == [r \in 1..Len(rows) |-> Laid(k, rows[r], cols)]

InputMergeable(k) ==
    /\ table_list0[k].page = table_list0[k - 1].page + 1
    /\ table_list0[k].df.ncols = ChainWidth(group[k - 1], k - 1)

\* C1: a fragment joins the open chain if and only if its page is the page of the
\* fragment absorbed last plus one and its column count is the chain's; otherwise
\* the chain is sealed as an output table of its own and the fragment opens a new
\* chain, so the two never share an output table.
C1_MergeIffAdjacentSameWidth ==
    /\ \A k \in 2..Consumed :
          /\ (group[k] = group[k - 1]) <=> InputMergeable(k)
          /\ group[k] # group[k - 1] =>
                /\ group[k] = k
                /\ \E i \in 1..Len(stitched) : stitched[i] = group[k - 1]
    /\ pc = "loop" =>
          /\ current_entry = group[Consumed]
          /\ table_list[current_entry].page = table_list0[Consumed].page
          /\ table_list[current_entry].df.ncols = ChainWidth(current_entry, Consumed)
          /\ Len(table_list[current_entry].df.columns) = table_list[current_entry].df.ncols
    /\ pc = "returned" /\ Consumed > 0 =>
          /\ Consumed = Len(table_list0)
          /\ Len(stitched) = Cardinality({group[k] : k \in 1..Consumed})
          /\ \A i \in 1..Len(stitched) :
                /\ group[stitched[i]] = stitched[i]
                /\ i > 1 => stitched[i - 1] < stitched[i]
                /\ Returned[i].page = table_list0[LastOf(stitched[i])].page

\* two 2-column fragments with different labels make a 3-column chain, and a
\* third 2-column fragment on the next page is kept out of it
C1_Witness ==
    /\ pc = "returned"
    /\ group = <<1, 1, 3>>
    /\ table_list0[3].page = table_list0[2].page + 1
    /\ \A k \in 1..3 : table_list0[k].df.ncols = 2
    /\ LabelsOf(1) # LabelsOf(2)
    /\ Returned[1].df.ncols = 3

\* C4: the first row of a merged fragment is dropped if and only if strictly more
\* than half of its cells equal, position by position, the cells of the chain's
\* first row; all its other rows are appended to the chain, every cell under the
\* label of its column.
C4_HeaderDroppedIffMajority ==
    /\ \A k \in 1..Consumed :
          IF group[k] = k
            THEN ~dropped[k]
            ELSE LET g == group[k]
                     new == FragRows(k)[1]
                     old == Laid(g, FragRows(g)[1], ChainColumns(g, k - 1))
                     same == {c \in 1..Len(new) : new[c] = old[c]}
                 IN /\ Len(old) = Len(new)
                    /\ dropped[k] <=> 2 * Cardinality(same) > Len(new)
    /\ pc = "loop" =>
          LET chain == table_list[current_entry].df
              first == FragRows(current_entry)
              last == KeptRows(Consumed)
              n == Len(chain.rows)
          IN /\ n >= Len(last)
             /\ SubSeq(chain.rows, n - Len(last) + 1, n)
                  = LaidRows(Consumed, last, chain.columns)
             /\ SubSeq(chain.rows, 1, Len(first))
                  = LaidRows(current_entry, first, chain.columns)
             /\ chain.columns = ChainColumns(current_entry, Consumed)

C4_Witness ==
    /\ pc = "returned"
    /\ group = <<1, 1, 1>>
    /\ dropped = <<FALSE, FALSE, TRUE>>
    /\ table_list0[1].df.ncols = 2
    /\ Len(FragRows(3)) = 2
    /\ Cardinality({c \in 1..2 : FragRows(2)[1][c] = FragRows(1)[1][c]}) = 1

\* C5: the rows of the returned tables, concatenated in output order, are the rows
\* of the input fragments in input order without the dropped first rows (at most
\* one per merged fragment); each returned table holds the rows of its fragments.
C5_RowsPreserved ==
    pc = "returned" /\ Consumed > 0 =>
        /\ Flatten([i \in 1..Len(stitched) |-> Returned[i].df.rows])
             = KeptRange(1, Len(table_list0))
        /\ \A i \in 1..Len(stitched) :
              Returned[i].df.rows = KeptRange(stitched[i], LastOf(stitched[i]))
        /\ \A k \in 1..Consumed : dropped[k] => group[k] # k /\ Len(FragRows(k)) >= 1

\* C6: stitch leaves its input untouched: when it returns, every input fragment
\* has the page and the grid it had when stitch was called.
C6_InputUnchanged == pc = "returned" => table_list = table_list0

\* C10 (stitch): stitch returns a result for every fragment list, also when a
\* fragment or the open chain has no rows; it never raises.
C10_StitchNeverRaises == pc # "raised"

(***************************************************************************)
(* The inline stitching loop of process_pdfs_with_stitching                *)
(* (PDFScraper.py).  extracted_pieces is the fragment list as it was       *)
(* handed over, table_list0: the loop builds a new dict for every merge    *)
(* and writes to no dict of the list.                                      *)
(***************************************************************************)
extracted_pieces == table_list0

are_tables_mergeable(prev_df, curr_df, prev_page, curr_page) ==
    IF curr_page # prev_page + 1 THEN FALSE
    ELSE IF prev_df.ncols # curr_df.ncols THEN FALSE
    ELSE TRUE

InlineEnter ==
    /\ UNCHANGED <<stitchVars, splitVars, riceVars, restitchVars, batchVars, pc>>
    /\ ipc = "inline_call"
    /\ IF Len(extracted_pieces) = 0
         THEN /\ ipc' = "inline_returned"
              /\ UNCHANGED current_merged
         ELSE /\ ipc' = "inline_loop"
              /\ current_merged' = extracted_pieces[1]
    /\ UNCHANGED <<piece_i, final_tables, igroup>>

InlineMerge ==
    /\ UNCHANGED <<stitchVars, splitVars, riceVars, restitchVars, batchVars, pc>>
    /\ ipc = "inline_loop"
    /\ piece_i < Len(extracted_pieces)
    /\ LET next_piece == extracted_pieces[piece_i + 1]
       IN /\ are_tables_mergeable(current_merged.df, next_piece.df,
                                  current_merged.page, next_piece.page)
          /\ LET merged_df == concat(current_merged.df, next_piece.df)
             IN current_merged' = [page |-> next_piece.page, df |-> merged_df]
    /\ igroup' = Append(igroup, igroup[Len(igroup)])
    /\ piece_i' = piece_i + 1
    /\ UNCHANGED <<final_tables, ipc>>

InlineSeal ==
    /\ UNCHANGED <<stitchVars, splitVars, riceVars, restitchVars, batchVars, pc>>
    /\ ipc = "inline_loop"
    /\ piece_i < Len(extracted_pieces)
    /\ LET next_piece == extracted_pieces[piece_i + 1]
       IN /\ ~are_tables_mergeable(current_merged.df, next_piece.df,
                                   current_merged.page, next_piece.page)
          /\ final_tables' = Append(final_tables, current_merged.df)
          /\ current_merged' = next_piece
    /\ igroup' = Append(igroup, piece_i + 1)
    /\ piece_i' = piece_i + 1
    /\ UNCHANGED ipc

InlineReturn ==
    /\ UNCHANGED <<stitchVars, splitVars, riceVars, restitchVars, batchVars, pc>>
    /\ ipc = "inline_loop"
    /\ piece_i >= Len(extracted_pieces)
    /\ final_tables' = Append(final_tables, current_merged.df)
    /\ ipc' = "inline_returned"
    /\ UNCHANGED <<current_merged, piece_i, igroup>>

NextInline ==
    \/ InlineEnter
    \/ InlineMerge
    \/ InlineSeal
    \/ InlineReturn

\* both implementations are given the same fragment list
InitBoth ==
    /\ StitchInput
    /\ StitchCalled
    /\ current_merged = NoEntry /\ piece_i = 1 /\ final_tables = <<>>
    /\ igroup = (IF Len(table_list) = 0 THEN <<>> ELSE <<1>>)
    /\ ipc = "inline_call"
    /\ SplitIdle
    /\ RiceIdle
    /\ RestitchIdle
    /\ BatchIdle

\* the inline loop runs first, stitch_tables after it
NextBoth ==
    \/ NextInline
    \/ ipc = "inline_returned" /\ NextStitch

SpecBoth == InitBoth /\ [][NextBoth]_vars

\* the number of rows of the input fragments a..b
RECURSIVE RowsBefore(_, _)
RowsBefore(a, b) == IF b < a THEN 0 ELSE Len(FragRows(b)) + RowsBefore(a, b - 1)

\* rows of the inline loop's table that began at fragment g, without the first
\* row of every fragment whose first row stitch_tables dropped
InlineWithoutDropped(i, g) ==
    LET rows == final_tables[i].rows
        part(k) == SubSeq(rows, RowsBefore(g, k - 1) + 1, RowsBefore(g, k))
    IN Flatten([j \in 1..(LastOf(g) - g + 1) |->
                  IF dropped[g + j - 1] THEN Tail(part(g + j - 1)) ELSE part(g + j - 1)])

\* the two implementations decide alike at every fragment both have consumed
SameDecisions ==
    \A k \in 1..Len(group) : k <= Len(igroup) => group[k] = igroup[k]

SameTables ==
    /\ Len(stitched) = Len(final_tables)
    /\ \A i \in 1..Len(stitched) :
          /\ Len(final_tables[i].rows) = RowsBefore(stitched[i], LastOf(stitched[i]))
          /\ Returned[i].df.rows = InlineWithoutDropped(i, stitched[i])
          /\ Returned[i].df.ncols = final_tables[i].ncols

\* C14: run on one fragment list, the inline stitching loop and stitch_tables
\* make the same merge or seal decision at every fragment, return the same number
\* of tables grouping the same fragments, and the rows of each pair of tables
\* differ only in the duplicate header rows stitch_tables drops.
C14_SameDecisionsAndRows ==
    /\ SameDecisions
    /\ ipc = "inline_returned" => pc # "raised"
    /\ ipc = "inline_returned" /\ pc = "returned" => SameTables

\* the same, for the fragment lists on which stitch_tables returns
EquivalentWhereStitchReturns ==
    /\ SameDecisions
    /\ ipc = "inline_returned" /\ pc = "returned" => SameTables

(***************************************************************************)
(* stitch_tables called a second time, on the pieces of the table its      *)
(* first call returned                                                     *)
(***************************************************************************)
\* a fragment whose first two rows are both the header row
TwoHeaderFrame(w, n) ==
    [ncols |-> w, columns |-> RangeLabels(w),
     rows |-> <<FirstRow(w, w), FirstRow(w, w)>> \o [j \in 1..n |-> BodyRow(w, j)]]
RestitchFrames(w) ==
    HeaderFrames(w) \cup {TwoHeaderFrame(w, n) : n \in 0..(MaxRows - 1)}

\* the number of rows fragments 1..k left in the table of the first call
RECURSIVE KeptBefore(_)
KeptBefore(k) == IF k = 0 THEN 0 ELSE Len(KeptRows(k)) + KeptBefore(k - 1)

\* the k-th piece: the rows fragment k left in table df, on fragment k's page
Piece(df, k) ==
    [page |-> table_list0[k].page,
     df |-> [ncols |-> df.ncols, columns |-> df.columns,
             rows |-> SubSeq(df.rows, KeptBefore(k - 1) + 1, KeptBefore(k))]]

\* the table of the first call is cut at the fragment boundaries and
\* stitch_tables is called on the pieces
Resplit ==
    /\ UNCHANGED <<splitVars, riceVars, inlineVars, batchVars>>
    /\ pc = "returned"
    /\ round = 1
    /\ Len(stitched) = 1
    /\ LET df == Returned[1].df
           pieces == [k \in 1..Len(table_list0) |-> Piece(df, k)]
       IN /\ table_list' = pieces
          /\ table_list0' = pieces
          /\ first_stitch' = df.rows
    /\ current_entry' = 0
    /\ pos' = 2
    /\ stitched' = <<>>
    /\ group' = <<1>>
    /\ dropped' = <<FALSE>>
    /\ round' = 2
    /\ pc' = "call"

\* one to MaxFrags fragments of one width; Resplit takes up the lists whose
\* pages are consecutive, which the first call stitches into one table
InitRestitch ==
    /\ \E n \in 1..MaxFrags, w \in HeaderWidths :
          \E st \in [1..n -> PageSteps], fr \in [1..n -> RestitchFrames(w)] :
             table_list = HeaderList(st, fr)
    /\ StitchCalled
    /\ RestitchIdle
    /\ SplitIdle
    /\ RiceIdle
    /\ InlineIdle
    /\ BatchIdle

NextRestitch ==
    \/ NextStitch
    \/ Resplit

SpecRestitch == InitRestitch /\ [][NextRestitch]_vars

\* when the second call returns, it returns one table with the rows of the first
SecondStitchKeepsRows ==
    round = 2 /\ pc = "returned" =>
        /\ Len(stitched) = 1
        /\ Returned[1].df.rows = first_stitch

\* C12: when the table stitched from N same-width, page-adjacent fragments is cut
\* back into N pieces at the fragment boundaries, on the original pages, and the
\* pieces are stitched again, the second stitch yields one table with the row
\* sequence of the first stitch: it removes no further rows.
C12_RestitchRemovesNoRows ==
    /\ round = 2 => pc # "raised"
    /\ SecondStitchKeepsRows

(***************************************************************************)
(* Text: a cell is a Python str; Chars gives its characters, so that       *)
(* lower(), "in", str.contains and str.cat work on characters.             *)
(***************************************************************************)
WideCell == "Milled Production Supply and Distribution by Marketing Year"
NarrativeCell == "The shipment is that which they say was delivered with care"
LongCell == "xxxxxxxxxxxxxxxxxxxxxxxxxxxxxxxxxxxxxxxxxxxxxxxxxxxxxxxxxxxxxxxxxxxxxxxxxxxxxxxxxxxxxxxxxxxxxxxxxxxxx"

Chars ==
    "" :> <<>> @@
    "Country" :> <<"C", "o", "u", "n", "t", "r", "y">> @@
    "Commodity" :> <<"C", "o", "m", "m", "o", "d", "i", "t", "y">> @@
    "Year" :> <<"Y", "e", "a", "r">> @@
    "Brazil" :> <<"B", "r", "a", "z", "i", "l">> @@
    "Rice" :> <<"R", "i", "c", "e">> @@
    "2023" :> <<"2", "0", "2", "3">> @@
    "10" :> <<"1", "0">> @@
    "20" :> <<"2", "0">> @@
    "30" :> <<"3", "0">> @@
    "40" :> <<"4", "0">> @@
    "PSD Table" :> <<"P", "S", "D", " ", "T", "a", "b", "l", "e">> @@
    "Trade" :> <<"T", "r", "a", "d", "e">> @@
    "Matrix" :> <<"M", "a", "t", "r", "i", "x">> @@
    "Corn" :> <<"C", "o", "r", "n">> @@
    "Wheat" :> <<"W", "h", "e", "a", "t">> @@
    "Prices" :> <<"P", "r", "i", "c", "e", "s">> @@
    WideCell :> <<"M", "i", "l", "l", "e", "d", " ", "P", "r", "o", "d", "u", "c", "t", "i", "o", "n", " ",
                  "S", "u", "p", "p", "l", "y", " ", "a", "n", "d", " ",
                  "D", "i", "s", "t", "r", "i", "b", "u", "t", "i", "o", "n", " ", "b", "y", " ",
                  "M", "a", "r", "k", "e", "t", "i", "n", "g", " ", "Y", "e", "a", "r">> @@
    "Total" :> <<"T", "o", "t", "a", "l">> @@
    NarrativeCell :> <<"T", "h", "e", " ", "s", "h", "i", "p", "m", "e", "n", "t", " ", "i", "s", " ", "t", "h", "a", "t", " ", "w", "h", "i", "c", "h", " ", "t", "h", "e", "y", " ", "s", "a", "y", " ", "w", "a", "s", " ", "d", "e", "l", "i", "v", "e", "r", "e", "d", " ", "w", "i", "t", "h", " ", "c", "a", "r", "e">> @@
    LongCell :> [i \in 1..101 |-> "x"] @@
    "commodity" :> <<"c", "o", "m", "m", "o", "d", "i", "t", "y">> @@
    "psd table" :> <<"p", "s", "d", " ", "t", "a", "b", "l", "e">> @@
    "trade matrix" :> <<"t", "r", "a", "d", "e", " ", "m", "a", "t", "r", "i", "x">> @@
    "prices table" :> <<"p", "r", "i", "c", "e", "s", " ", "t", "a", "b", "l", "e">> @@
    "rice" :> <<"r", "i", "c", "e">> @@
    "corn" :> <<"c", "o", "r", "n">> @@
    "wheat" :> <<"w", "h", "e", "a", "t">> @@
    " the " :> <<" ", "t", "h", "e", " ">> @@
    " is " :> <<" ", "i", "s", " ">> @@
    " that " :> <<" ", "t", "h", "a", "t", " ">> @@
    " are " :> <<" ", "a", "r", "e", " ">> @@
    " with " :> <<" ", "w", "i", "t", "h", " ">> @@
    " they " :> <<" ", "t", "h", "e", "y", " ">> @@
    " was " :> <<" ", "w", "a", "s", " ">>

UpperCase == <<"A", "B", "C", "D", "E", "F", "G", "H", "I", "J", "K", "L", "M",
               "N", "O", "P", "Q", "R", "S", "T", "U", "V", "W", "X", "Y", "Z">>
LowerCase == <<"a", "b", "c", "d", "e", "f", "g", "h", "i", "j", "k", "l", "m",
               "n", "o", "p", "q", "r", "s", "t", "u", "v", "w", "x", "y", "z">>
Digits == {"0", "1", "2", "3", "4", "5", "6", "7", "8", "9"}

lower_char(c) ==
    IF \E i \in 1..26 : UpperCase[i] = c
      THEN LowerCase[CHOOSE i \in 1..26 : UpperCase[i] = c]
      ELSE c

\* str.lower()
lower(cs) == [i \in 1..Len(cs) |-> lower_char(cs[i])]

\* needle in hay
contains(needle, hay) ==
    \E i \in 0..(Len(hay) - Len(needle)) :
        \A j \in 1..Len(needle) : hay[i + j] = needle[j]

\* Series.astype(str).str.cat(sep=" ")
RECURSIVE str_cat(_)
str_cat(row) ==
    IF Len(row) = 0 THEN <<>>
    ELSE IF Len(row) = 1 THEN Chars[row[1]]
    ELSE Chars[row[1]] \o <<" ">> \o str_cat(Tail(row))

(***************************************************************************)
(* split_mixed_tables and find_true_table_start                            *)
(***************************************************************************)
MaxSplitRows == 17
MaxMarks == 3
LookBack == 15
HeaderHeight == 2

AnchorRow == <<"Commodity", "Rice">>
TitleRow == <<"PSD Table", "2023">>
SplitTitleRow == <<"Trade", "Matrix">>
FillerRow == <<"Brazil", "10">>
MarkRows == {AnchorRow, TitleRow, SplitTitleRow}
SplitRows == MarkRows \cup {FillerRow, <<>>}

SplitLengths == {0, 1, 8, MaxSplitRows}

\* strictly increasing sequences of m row numbers in 1..n
RECURSIVE Placements(_, _)
Placements(m, n) ==
    IF m = 0 THEN {<<>>}
    ELSE UNION {{Append(q, x) : x \in (IF Len(q) = 0 THEN 1 ELSE q[Len(q)] + 1)..n} :
                  q \in Placements(m - 1, n)}

\* grids of n rows: filler rows, and at most MaxMarks anchor or title rows anywhere
MarkedGrid(n, q, k) ==
    [ncols |-> 2, columns |-> RangeLabels(2),
     rows |-> [i \in 1..n |-> IF \E j \in 1..Len(q) : q[j] = i
                                THEN k[CHOOSE j \in 1..Len(q) : q[j] = i]
                                ELSE FillerRow]]
DegenerateGrids == {EmptyFrame(0), EmptyFrame(2), [ncols |-> 0, columns |-> <<>>, rows |-> <<<<>>, <<>>>>]}

\* df.astype(str).apply(lambda x: x.str.contains('Commodity', case=False)).any(axis=1)
is_commodity_row(row) ==
    \E c \in 1..Len(row) : contains(Chars["commodity"], lower(Chars[row[c]]))

row_text(row) == lower(str_cat(row))

has_table_title(row) ==
    \/ contains(Chars["psd table"], row_text(row))
    \/ contains(Chars["trade matrix"], row_text(row))
    \/ contains(Chars["prices table"], row_text(row))

\* the two row tests, evaluated once for every row a grid can hold
CommodityRows == {r \in SplitRows : is_commodity_row(r)}
TitledRows == {r \in SplitRows : has_table_title(r)}

Max(a, b) == IF a >= b THEN a ELSE b
Min(a, b) == IF a <= b THEN a ELSE b

\* a variant whose range stops one row short: range(commodity_idx, limit, -1)
RECURSIVE scan_up_exclusive_limit(_, _, _)
scan_up_exclusive_limit(df, i, limit) ==
    IF i <= limit THEN -1
    ELSE IF df.rows[i + 1] \in TitledRows THEN i
    ELSE scan_up_exclusive_limit(df, i - 1, limit)

\* for i in range(commodity_idx, limit - 1, -1): the first row with a title, or -1
RECURSIVE scan_up(_, _, _)
scan_up(df, i, limit) ==
    IF i < limit THEN -1
    ELSE IF df.rows[i + 1] \in TitledRows THEN i
    ELSE scan_up(df, i - 1, limit)

\* the rows df.iloc[i] reads in that loop, in the order it reads them
RECURSIVE rows_examined(_, _, _)
rows_examined(df, i, limit) ==
    IF i < limit THEN <<>>
    ELSE IF df.rows[i + 1] \in TitledRows THEN <<i>>
    ELSE <<i>> \o rows_examined(df, i - 1, limit)

\* a variant whose fallback is the anchor row itself
find_true_table_start_no_offset(df, commodity_idx) ==
    LET found == scan_up(df, commodity_idx, Max(0, commodity_idx - LookBack))
    IN IF found >= 0 THEN found ELSE commodity_idx

find_true_table_start(df, commodity_idx) ==
    LET limit == Max(0, commodity_idx - LookBack)
        found == scan_up(df, commodity_idx, limit)
    IN IF found >= 0 THEN found ELSE Max(0, commodity_idx - HeaderHeight)

\* df.index[mask].tolist(), 0-based, in row order
RECURSIVE commodity_rows_from(_, _)
commodity_rows_from(df, i) ==
    IF i >= Len(df.rows) THEN <<>>
    ELSE (IF df.rows[i + 1] \in CommodityRows THEN <<i>> ELSE <<>>)
         \o commodity_rows_from(df, i + 1)

\* a variant that cuts the first sub-table at its resolved start
current_start_unforced(i, starts) == starts[i + 1]

\* lines 73 and 91-92: the start of sub-table i (0-based)
current_start(i, starts) == IF i = 0 THEN 0 ELSE starts[i + 1]

\* lines 76-82
current_end(i, starts, df) == IF i + 1 < Len(starts) THEN starts[i + 2] ELSE Len(df.rows)

\* df.iloc[a:b].reset_index(drop=True), for 0 <= a and 0 <= b
iloc_slice(df, a, b) ==
    [ncols |-> df.ncols, columns |-> df.columns,
     rows |-> SubSeq(df.rows, a + 1, Min(b, Len(df.rows)))]

SplitFindAnchors ==
    /\ UNCHANGED <<stitchVars, riceVars, inlineVars, restitchVars, batchVars>>
    /\ pc = "split_call"
    /\ commodity_indices' = commodity_rows_from(sdf, 0)
    /\ IF Len(commodity_indices') = 0
         THEN /\ split_tables' = <<sdf>>
              /\ spans' = <<<<0, Len(sdf.rows)>>>>
              /\ pc' = "split_returned"
         ELSE /\ UNCHANGED <<split_tables, spans>>
              /\ pc' = "split_starts"
    /\ UNCHANGED <<sdf, table_starts>>

SplitResolveStart ==
    /\ UNCHANGED <<stitchVars, riceVars, inlineVars, restitchVars, batchVars>>
    /\ pc = "split_starts"
    /\ LET idx == commodity_indices[Len(table_starts) + 1]
       IN table_starts' = Append(table_starts, find_true_table_start(sdf, idx))
    /\ pc' = IF Len(table_starts') = Len(commodity_indices) THEN "split_slice" ELSE pc
    /\ UNCHANGED <<sdf, commodity_indices, split_tables, spans>>

SplitSlice ==
    /\ UNCHANGED <<stitchVars, riceVars, inlineVars, restitchVars, batchVars>>
    /\ pc = "split_slice"
    /\ LET i == Len(split_tables)
           a == current_start(i, table_starts)
           b == current_end(i, table_starts, sdf)
       IN /\ split_tables' = Append(split_tables, iloc_slice(sdf, a, b))
          /\ spans' = Append(spans, <<a, b>>)
    /\ pc' = IF Len(split_tables') = Len(table_starts) THEN "split_returned" ELSE pc
    /\ UNCHANGED <<sdf, commodity_indices, table_starts>>

InitSplit ==
    /\ \/ sdf \in DegenerateGrids
       \/ \E n \in SplitLengths, m \in 0..MaxMarks :
             \E q \in Placements(m, n), k \in [1..m -> MarkRows] :
                sdf = MarkedGrid(n, q, k)
    /\ commodity_indices = <<>> /\ table_starts = <<>>
    /\ split_tables = <<>> /\ spans = <<>>
    /\ pc = "split_call"
    /\ StitchIdle
    /\ RiceIdle
    /\ OthersIdle

NextSplit ==
    \/ SplitFindAnchors
    \/ SplitResolveStart
    \/ SplitSlice

SpecSplit == InitSplit /\ [][NextSplit]_vars

(***************************************************************************)
(* Properties of split_mixed_tables                                        *)
(***************************************************************************)
\* C2: the returned sub-tables partition the rows [0, rowCount): the first begins
\* at row 0, each ends where the next begins, the last ends at rowCount, and
\* their rows concatenated in order are the rows of the grid.
C2_SubTablesPartitionRows ==
    pc = "split_returned" =>
        /\ Len(split_tables) = Len(spans) /\ Len(spans) >= 1
        /\ spans[1][1] = 0
        /\ spans[Len(spans)][2] = Len(sdf.rows)
        /\ \A i \in 1..Len(spans) :
              /\ spans[i][1] <= spans[i][2]
              /\ i < Len(spans) => spans[i][2] = spans[i + 1][1]
              /\ split_tables[i].rows = SubSeq(sdf.rows, spans[i][1] + 1, spans[i][2])
        /\ Flatten([i \in 1..Len(split_tables) |-> split_tables[i].rows]) = sdf.rows

\* a first anchor that falls back to row 3 (cut at row 0 all the same), and a
\* second anchor whose start is the title row above it
C2_Witness ==
    /\ pc = "split_returned"
    /\ Len(sdf.rows) = MaxSplitRows
    /\ commodity_indices = <<5, 10>>
    /\ sdf.rows[9] = SplitTitleRow
    /\ table_starts = <<3, 8>>
    /\ spans = <<<<0, 8>>, <<8, MaxSplitRows>>>>

EightRowsAnchorsAt2And6 ==
    /\ Len(sdf.rows) = 8
    /\ \A i \in 0..7 : sdf.rows[i + 1] \in CommodityRows <=> i \in {2, 6}
    /\ \A i \in 0..7 : sdf.rows[i + 1] \notin TitledRows

\* C9 as stated: an 8-row table with anchors at rows 2 and 6 and no title marker
\* is cut into the spans [0,6) and [6,8).
C9_SpansAsStated ==
    pc = "split_returned" /\ EightRowsAnchorsAt2And6 => spans = <<<<0, 6>>, <<6, 8>>>>

\* C9 amended: the second anchor's start falls back to 2 rows above it, so the
\* table is cut into the spans [0,4) and [4,8).
C9_SpansFallBackTwoRows ==
    pc = "split_returned" /\ EightRowsAnchorsAt2And6 =>
        /\ table_starts = <<0, 4>>
        /\ spans = <<<<0, 4>>, <<4, 8>>>>
        /\ Len(split_tables) = 2
        /\ split_tables[1].rows = SubSeq(sdf.rows, 1, 4)
        /\ split_tables[2].rows = SubSeq(sdf.rows, 5, 8)

C9_Witness == pc = "split_returned" /\ EightRowsAnchorsAt2And6

\* the rows the scan reads for the a-th anchor
ExaminedFor(a) ==
    rows_examined(sdf, commodity_indices[a], Max(0, commodity_indices[a] - LookBack))
\* the rows from i - LookBack (not below 0) to i that hold a title marker
TitledUpTo(i) == {r \in Max(0, i - LookBack)..i : sdf.rows[r + 1] \in TitledRows}

\* what C13 says of the a-th anchor, for a scan of at most n rows
ResolvedWithin(a, n) ==
    LET i == commodity_indices[a]
        ex == ExaminedFor(a)
        start == table_starts[a]
    IN /\ Len(ex) <= n
       /\ \A j \in 1..Len(ex) : ex[j] = i - (j - 1) /\ ex[j] >= 0
       /\ IF \E j \in 1..Len(ex) : sdf.rows[ex[j] + 1] \in TitledRows
            THEN /\ sdf.rows[start + 1] \in TitledRows
                 /\ start = ex[Len(ex)]
                 /\ \A j \in 1..(Len(ex) - 1) : sdf.rows[ex[j] + 1] \notin TitledRows
            ELSE start = Max(0, i - HeaderHeight)
       /\ 0 <= start /\ start <= i

\* C13 as stated: the scan for an anchor at row i examines at most 15 rows, from
\* i backward and never before row 0; the start is the first examined row with a
\* title marker, else i - 2 (not below 0); the start lies in [0, i].
C13_AtMostFifteenRowsExamined ==
    \A a \in 1..Len(table_starts) : ResolvedWithin(a, LookBack)

\* C13 amended: the scan examines at most 16 rows, the anchor row and the 15 rows
\* above it, so a title marker exactly 15 rows above the anchor is still found;
\* the rest as stated.
C13_AnchorAndFifteenRowsAbove ==
    \A a \in 1..Len(table_starts) :
        /\ ResolvedWithin(a, LookBack + 1)
        /\ LET i == commodity_indices[a]
           IN table_starts[a] = IF TitledUpTo(i) = {}
                                  THEN Max(0, i - HeaderHeight)
                                  ELSE CHOOSE r \in TitledUpTo(i) :
                                          \A x \in TitledUpTo(i) : x <= r

\* an anchor at row 16 whose only title row is row 1, the 16th row examined
C13_Witness ==
    /\ pc = "split_returned"
    /\ commodity_indices = <<LookBack + 1>>
    /\ TitledUpTo(LookBack + 1) = {1}
    /\ Len(ExaminedFor(1)) = LookBack + 1
    /\ table_starts = <<1>>

(***************************************************************************)
(* is_strictly_rice_table, is_narrative_text, is_valid_data_structure      *)
(*                                                                         *)
(* DataFrame.to_string() of a frame with rows and columns is one line of   *)
(* column labels and one line per row; a line is the index label padded to *)
(* the widest label, then for every column two spaces and the cell         *)
(* right-justified to the widest text of the column.  A frame without rows *)
(* or without columns prints as "Empty DataFrame", its column labels and   *)
(* its index labels.                                                       *)
(***************************************************************************)
MaxRiceRows == 21
MaxRiceMarks == 2
HeadRows == 20
MaxCellLen == 100
MaxLenColumns == 5
MinStopWords == 2
\* density < 0.02  <=>  DensityInverse * digit_count < total_chars
DensityInverse == 50

NumberRow == <<"2023", "2023", "10">>
WideTextRow == <<WideCell, WideCell, "Total">>
FillerRows == {NumberRow, WideTextRow}

LabelOnlyRow == <<"Commodity", "Year", "Total">>
LabelRiceRow == <<"Commodity", "Rice", "Total">>
LabelCornRow == <<"Commodity", "Corn", "Total">>
LabelWheatRow == <<"Commodity", "Wheat", "Total">>
LabelRiceCornRow == <<"Commodity", "Rice", "Corn">>
RiceDataRow == <<"Brazil", "Rice", "Total">>
CornDataRow == <<"Brazil", "Corn", "Total">>
NarrativeRow == <<NarrativeCell, "Year", "Total">>
LongRow == <<LongCell, "Year", "Total">>
RiceMarkRows ==
    {LabelOnlyRow, LabelRiceRow, LabelCornRow, LabelWheatRow, LabelRiceCornRow,
     RiceDataRow, CornDataRow, NarrativeRow, LongRow}
RiceRows == RiceMarkRows \cup FillerRows
RiceCells == UNION {{r[c] : c \in 1..3} : r \in RiceRows}

RiceLengths == {0, 2, MaxRiceRows}
\* rows a mark can stand in (1-based): the first two, the last of the header
\* window and the first after it
RicePlaces(n) == {x \in {1, 2, HeadRows, HeadRows + 1} : x <= n}

RECURSIVE PlacementsIn(_, _)
PlacementsIn(m, places) ==
    IF m = 0 THEN {<<>>}
    ELSE UNION {{Append(q, x) : x \in {y \in places : Len(q) = 0 \/ y > q[Len(q)]}} :
                  q \in PlacementsIn(m - 1, places)}

RiceGrid(n, filler, q, k) ==
    [ncols |-> 3, columns |-> RangeLabels(3),
     rows |-> [i \in 1..n |-> IF \E j \in 1..Len(q) : q[j] = i
                                THEN k[CHOOSE j \in 1..Len(q) : q[j] = i]
                                ELSE filler]]

\* df.head(HeadRows)
head(df) ==
    [ncols |-> df.ncols, columns |-> df.columns,
     rows |-> SubSeq(df.rows, 1, Min(HeadRows, Len(df.rows)))]

is_empty_frame(df) == Len(df.rows) = 0 \/ df.ncols = 0

\* the cells of to_string() stand after at least one space and before a space,
\* or before the end of the line in the last column
cell_in_context(s, last) ==
    <<" ">> \o lower(Chars[s]) \o <<IF last THEN "\n" ELSE " ">>

Needles == {"commodity", "rice", "corn", "wheat",
            " the ", " is ", " that ", " are ", " with ", " they ", " was "}

\* for every needle, the cells whose printed text holds it (evaluated once)
CellsHolding ==
    [n \in Needles, last \in BOOLEAN |->
        {s \in RiceCells : contains(Chars[n], cell_in_context(s, last))}]

\* needle in df.astype(str).to_string().lower()
in_to_string(needle, df) ==
    /\ ~is_empty_frame(df)
    /\ \E r \in 1..Len(df.rows) : \E c \in 1..df.ncols :
          df.rows[r][c] \in CellsHolding[needle, c = df.ncols]

\* for every needle, the rows whose row_text holds it (evaluated once)
RowsHolding ==
    [n \in {"commodity", "rice", "corn", "wheat"} |->
        {r \in RiceRows \cup {<<>>} : contains(Chars[n], row_text(r))}]

CellLen == [s \in RiceCells |-> Len(Chars[s])]
CellDigits == [s \in RiceCells |-> Cardinality({i \in 1..Len(Chars[s]) : Chars[s][i] \in Digits})]

RECURSIVE SumTo(_, _)
SumTo(f, n) == IF n = 0 THEN 0 ELSE f[n] + SumTo(f, n - 1)

RECURSIVE MaxTo(_, _)
MaxTo(f, n) == IF n = 0 THEN 0 ELSE Max(f[n], MaxTo(f, n - 1))

\* the length of the label of row or column i (labels are 0, 1, 2, ...; i < 100)
label_len(i) == IF i < 10 THEN 1 ELSE 2
labels_len(n) == SumTo([i \in 1..n |-> label_len(i - 1)], n)

\* subset[col].str.len().max(), 0 for a column without rows (NaN > 100 is False)
col_max_len(df, c) == MaxTo([r \in 1..Len(df.rows) |-> CellLen[df.rows[r][c]]], Len(df.rows))

\* len(df_str.to_string())
total_chars(df) ==
    IF is_empty_frame(df)
      THEN LET cols == IF df.ncols = 0 THEN 0 ELSE labels_len(df.ncols) + 2 * (df.ncols - 1)
               rows == IF Len(df.rows) = 0 THEN 0
                       ELSE labels_len(Len(df.rows)) + 2 * (Len(df.rows) - 1)
           IN 15 + 1 + 11 + cols + 1 + 9 + rows
      ELSE LET n == Len(df.rows)
               line == label_len(n - 1)
                       + SumTo([c \in 1..df.ncols |->
                                   2 + Max(label_len(c - 1), col_max_len(df, c))], df.ncols)
           IN (n + 1) * line + n

\* sum(c.isdigit() for c in text_blob)
digit_count(df) ==
    IF is_empty_frame(df)
      THEN labels_len(df.ncols) + labels_len(Len(df.rows))
      ELSE labels_len(df.ncols) + labels_len(Len(df.rows))
           + SumTo([r \in 1..Len(df.rows) |->
                       SumTo([c \in 1..df.ncols |-> CellDigits[df.rows[r][c]]], df.ncols)],
                   Len(df.rows))

StopWords == <<" the ", " is ", " that ", " are ", " with ", " they ", " was ">>

is_narrative_text(df) ==
    Cardinality({w \in 1..Len(StopWords) : in_to_string(StopWords[w], df)}) >= MinStopWords

cells_too_long(df) ==
    \E c \in 1..Min(MaxLenColumns, df.ncols) : col_max_len(df, c) > MaxCellLen

is_valid_data_structure(df) ==
    /\ ~cells_too_long(df)
    /\ total_chars(df) # 0
    /\ ~(DensityInverse * digit_count(df) < total_chars(df))

\* a variant that looks for the competing names first
label_verdict_competing_first(row) ==
    IF row \notin RowsHolding["commodity"] THEN "next"
    ELSE IF row \in RowsHolding["corn"] \/ row \in RowsHolding["wheat"] THEN "mismatch"
    ELSE IF row \in RowsHolding["rice"] THEN "match"
    ELSE "next"

\* a variant that takes a label naming no category for a mismatch
label_verdict_unknown_is_mismatch(row) ==
    IF row \notin RowsHolding["commodity"] THEN "next"
    ELSE IF row \in RowsHolding["rice"] THEN "match"
    ELSE "mismatch"

\* lines 79-85: what the row loop does with one row
label_verdict(row) ==
    IF row \notin RowsHolding["commodity"] THEN "next"
    ELSE IF row \in RowsHolding["rice"] THEN "match"
    ELSE IF row \in RowsHolding["corn"] \/ row \in RowsHolding["wheat"] THEN "mismatch"
    ELSE "next"

\* lines 101-105
content_fallback(df) ==
    /\ in_to_string("rice", head(df))
    /\ ~(in_to_string("corn", head(df)) \/ in_to_string("wheat", head(df)))

RiceHeaderChunk ==
    /\ UNCHANGED <<stitchVars, splitVars, inlineVars, restitchVars, batchVars>>
    /\ pc = "rice_call"
    /\ pc' = IF in_to_string("commodity", head(rdf)) THEN "rice_rows" ELSE "rice_narrative"
    /\ UNCHANGED <<rdf, row_i, inspected, verdict, reason>>

RiceRow ==
    /\ UNCHANGED <<stitchVars, splitVars, inlineVars, restitchVars, batchVars>>
    /\ pc = "rice_rows"
    /\ row_i < Min(HeadRows, Len(rdf.rows))
    /\ LET row == rdf.rows[row_i + 1]
           v == label_verdict(row)
       IN /\ inspected' = IF row \in RowsHolding["commodity"]
                            THEN Append(inspected, row_i) ELSE inspected
          /\ IF v = "match"
               THEN verdict' = "keep" /\ reason' = "label_match" /\ pc' = "rice_returned"
                    /\ UNCHANGED row_i
             ELSE IF v = "mismatch"
               THEN verdict' = "discard" /\ reason' = "label_mismatch" /\ pc' = "rice_returned"
                    /\ UNCHANGED row_i
             ELSE row_i' = row_i + 1 /\ UNCHANGED <<verdict, reason, pc>>
    /\ UNCHANGED rdf

RiceRowsDone ==
    /\ UNCHANGED <<stitchVars, splitVars, inlineVars, restitchVars, batchVars>>
    /\ pc = "rice_rows"
    /\ row_i >= Min(HeadRows, Len(rdf.rows))
    /\ pc' = "rice_narrative"
    /\ UNCHANGED <<rdf, row_i, inspected, verdict, reason>>

RiceNarrative ==
    /\ UNCHANGED <<stitchVars, splitVars, inlineVars, restitchVars, batchVars>>
    /\ pc = "rice_narrative"
    /\ IF is_narrative_text(rdf)
         THEN verdict' = "discard" /\ reason' = "narrative" /\ pc' = "rice_returned"
         ELSE pc' = "rice_structure" /\ UNCHANGED <<verdict, reason>>
    /\ UNCHANGED <<rdf, row_i, inspected>>

RiceStructure ==
    /\ UNCHANGED <<stitchVars, splitVars, inlineVars, restitchVars, batchVars>>
    /\ pc = "rice_structure"
    /\ IF ~is_valid_data_structure(rdf)
         THEN verdict' = "discard" /\ reason' = "invalid" /\ pc' = "rice_returned"
         ELSE pc' = "rice_fallback" /\ UNCHANGED <<verdict, reason>>
    /\ UNCHANGED <<rdf, row_i, inspected>>

RiceFallback ==
    /\ UNCHANGED <<stitchVars, splitVars, inlineVars, restitchVars, batchVars>>
    /\ pc = "rice_fallback"
    /\ IF content_fallback(rdf)
         THEN verdict' = "keep" /\ reason' = "fallback_match"
         ELSE verdict' = "discard" /\ reason' = "fallback_nomatch"
    /\ pc' = "rice_returned"
    /\ UNCHANGED <<rdf, row_i, inspected>>

InitRice ==
    /\ \/ rdf \in DegenerateGrids
       \/ \E n \in RiceLengths, m \in 0..MaxRiceMarks, filler \in FillerRows :
             \E q \in PlacementsIn(m, RicePlaces(n)), k \in [1..m -> RiceMarkRows] :
                rdf = RiceGrid(n, filler, q, k)
    /\ row_i = 0 /\ inspected = <<>> /\ verdict = "none" /\ reason = "none"
    /\ pc = "rice_call"
    /\ StitchIdle
    /\ SplitIdle
    /\ OthersIdle

NextRice ==
    \/ RiceHeaderChunk
    \/ RiceRow
    \/ RiceRowsDone
    \/ RiceNarrative
    \/ RiceStructure
    \/ RiceFallback

SpecRice == InitRice /\ [][NextRice]_vars

(***************************************************************************)
(* Properties of is_strictly_rice_table                                    *)
(***************************************************************************)
HeadIndices == 0..(Min(HeadRows, Len(rdf.rows)) - 1)
HoldsIn(n, i) == rdf.rows[i + 1] \in RowsHolding[n]
MarkerRows == {i \in HeadIndices : HoldsIn("commodity", i)}
NamesCompeting(i) == HoldsIn("corn", i) \/ HoldsIn("wheat", i)
NamingMarkerRows == {i \in MarkerRows : HoldsIn("rice", i) \/ NamesCompeting(i)}
Least(S) == CHOOSE x \in S : \A y \in S : x <= y
ByLabel == reason \in {"label_match", "label_mismatch"}
DensityTooLow(df) == DensityInverse * digit_count(df) < total_chars(df)

\* C3: when the first row of the first 20 that holds the grouping-key marker also
\* holds the target name the verdict is keep (explicit label match); when it holds
\* a competing name and not the target name the verdict is discard (explicit label
\* mismatch); the narrative, cell-length and digit-density checks play no part.
C3_FirstMarkerRowLabelDecides ==
    pc = "rice_returned" /\ MarkerRows # {} =>
        LET f == Least(MarkerRows)
        IN /\ HoldsIn("rice", f) => verdict = "keep" /\ reason = "label_match"
           /\ ~HoldsIn("rice", f) /\ NamesCompeting(f) =>
                 verdict = "discard" /\ reason = "label_mismatch"

\* the label row is the last of the header window, in a grid of wide text whose
\* digit density is too low
C3_Witness ==
    /\ pc = "rice_returned"
    /\ verdict = "keep" /\ reason = "label_match"
    /\ inspected = <<HeadRows - 1>>
    /\ ~cells_too_long(rdf)
    /\ DensityTooLow(rdf)
    /\ ~is_valid_data_structure(rdf)

\* C7 as stated: when the first marker row of the first 20 rows names neither the
\* target nor a competing category, no later marker row is inspected and the
\* verdict is not an explicit-label verdict.
C7_OnlyFirstMarkerRowInspected ==
    pc = "rice_returned" /\ MarkerRows # {} /\ Least(MarkerRows) \notin NamingMarkerRows =>
        /\ ~ByLabel
        /\ Len(inspected) <= 1

\* C7 amended: the marker rows of the first 20 rows are inspected in row order up
\* to the first one that names the target or a competing category, and that row
\* gives the explicit-label verdict; the later layers are reached only when no
\* marker row of the first 20 rows names either.
C7_FirstNamingMarkerRowDecides ==
    pc = "rice_returned" =>
        IF NamingMarkerRows # {}
          THEN LET f == Least(NamingMarkerRows)
               IN /\ ByLabel
                  /\ verdict = IF HoldsIn("rice", f) THEN "keep" ELSE "discard"
                  /\ {inspected[j] : j \in 1..Len(inspected)} = {i \in MarkerRows : i <= f}
                  /\ inspected[Len(inspected)] = f
          ELSE /\ ~ByLabel
               /\ {inspected[j] : j \in 1..Len(inspected)} = MarkerRows

\* a marker row naming nothing, then a marker row naming the target
C7_Witness ==
    /\ pc = "rice_returned"
    /\ Len(rdf.rows) = MaxRiceRows
    /\ rdf.rows[1] = LabelOnlyRow
    /\ rdf.rows[HeadRows] = LabelRiceRow
    /\ inspected = <<0, HeadRows - 1>>
    /\ verdict = "keep" /\ reason = "label_match"

\* C8: the content fallback is reached only when the first 20 rows hold no
\* grouping-key marker; a grid whose first 20 rows hold the marker is never kept
\* by the content fallback.
C8_FallbackOnlyWithoutMarker ==
    pc = "rice_returned" /\ reason \in {"fallback_match", "fallback_nomatch"} =>
        MarkerRows = {}

(***************************************************************************)
(* The batch loops over documents: the __main__ loop of                    *)
(* OCR_table_extractor.py with process_pdf, process_pdfs_with_stitching,   *)
(* process_splitting_workflow and process_rice_filtering.  A document is   *)
(* taken through the steps of the loop body; a step that calls a           *)
(* collaborator (file system, PDF or OCR library, Excel reader or writer)  *)
(* can raise, and docs names for every document the step that does.        *)
(***************************************************************************)
MaxDocs == 3

Scripts == {"ocr", "scraper", "splitter", "filter"}

\* the steps of one iteration of the loop body, in order
Steps(s) ==
    CASE s = "ocr" -> <<"exists", "open", "extract", "collect", "stitch", "save">>
      [] s = "scraper" -> <<"extract", "stitch", "save">>
      [] s = "splitter" -> <<"read", "split", "save">>
      [] s = "filter" -> <<"read", "filter", "save">>

\* the steps that can fail: a missing file, or a collaborator that raises
CanFail(s) ==
    CASE s = "ocr" -> {"exists", "open", "extract", "save"}
      [] s = "scraper" -> {"extract", "save"}
      [] s = "splitter" -> {"read", "save"}
      [] s = "filter" -> {"read", "save"}

\* the steps whose failure the loop body handles: they lie in a try block whose
\* except clause prints and goes on with the next document (or, for "exists",
\* in the if whose else branch prints)
Handled(s, step) ==
    CASE s = "ocr" -> step \in {"exists", "extract"}
      [] s = "scraper" -> step \in {"extract", "save"}
      [] s = "splitter" -> TRUE
      [] s = "filter" -> TRUE

\* for file in files: the next document, or the end of the batch
BatchNextDocument ==
    /\ UNCHANGED <<stitchVars, splitVars, riceVars, inlineVars, restitchVars>>
    /\ pc = "batch_loop"
    /\ step_i = 0
    /\ IF doc_i = Len(docs)
         THEN pc' = "batch_done" /\ UNCHANGED <<doc_i, step_i>>
         ELSE doc_i' = doc_i + 1 /\ step_i' = 1 /\ UNCHANGED pc
    /\ UNCHANGED <<script, docs, outcomes>>

\* the step does not fail
BatchStepOk ==
    /\ UNCHANGED <<stitchVars, splitVars, riceVars, inlineVars, restitchVars>>
    /\ pc = "batch_loop"
    /\ step_i >= 1
    /\ docs[doc_i] # Steps(script)[step_i]
    /\ IF step_i = Len(Steps(script))
         THEN step_i' = 0 /\ outcomes' = Append(outcomes, "processed")
         ELSE step_i' = step_i + 1 /\ UNCHANGED outcomes
    /\ UNCHANGED <<script, docs, doc_i, pc>>

\* the step fails where the loop body handles it: print, next document
BatchStepHandled ==
    /\ UNCHANGED <<stitchVars, splitVars, riceVars, inlineVars, restitchVars>>
    /\ pc = "batch_loop"
    /\ step_i >= 1
    /\ docs[doc_i] = Steps(script)[step_i]
    /\ Handled(script, Steps(script)[step_i])
    /\ step_i' = 0
    /\ outcomes' = Append(outcomes, "reported")
    /\ UNCHANGED <<script, docs, doc_i, pc>>

\* the step raises outside every try block: the exception leaves the loop
BatchStepRaises ==
    /\ UNCHANGED <<stitchVars, splitVars, riceVars, inlineVars, restitchVars>>
    /\ pc = "batch_loop"
    /\ step_i >= 1
    /\ docs[doc_i] = Steps(script)[step_i]
    /\ ~Handled(script, Steps(script)[step_i])
    /\ outcomes' = Append(outcomes, "raised")
    /\ pc' = "batch_aborted"
    /\ UNCHANGED <<script, docs, doc_i, step_i>>

InitBatch ==
    /\ script \in Scripts
    /\ \E n \in 0..MaxDocs : docs \in [1..n -> CanFail(script) \cup {"none"}]
    /\ doc_i = 0 /\ step_i = 0 /\ outcomes = <<>>
    /\ pc = "batch_loop"
    /\ StitchIdle
    /\ SplitIdle
    /\ RiceIdle
    /\ InlineIdle
    /\ RestitchIdle

NextBatch ==
    \/ BatchNextDocument
    \/ BatchStepOk
    \/ BatchStepHandled
    \/ BatchStepRaises

SpecBatch == InitBatch /\ [][NextBatch]_vars

\* every document is left behind processed or, if a step failed, reported
AllDocumentsHandled ==
    /\ Len(outcomes) = Len(docs)
    /\ \A i \in 1..Len(docs) :
          outcomes[i] = IF docs[i] = "none" THEN "processed" ELSE "reported"

\* C11: in every batch loop a failure while processing one document is reported
\* and the document skipped; the failure never aborts the batch, and every later
\* document is still processed.
C11_FailureNeverAbortsBatch ==
    /\ pc # "batch_aborted"
    /\ pc = "batch_done" => AllDocumentsHandled

\* the same for the three loops whose body lies in try blocks
HandledOutsideOcr ==
    script # "ocr" => C11_FailureNeverAbortsBatch
====
